---------------------------- MODULE Spec2Model ----------------------------
(***************************************************************************)
(* A model of the Denali engine pipeline and of its flat serializer.       *)
(*                                                                         *)
(*   SpecLoad    Engine.loadChildEngines: the discovery of the child       *)
(*               engines of one engine and their ordering with dag-map.    *)
(*   SpecMount   Engine.mountConfig .. Engine.mountRoutes on a tree of     *)
(*               loaded engines.                                           *)
(*   SpecRender  FlatSerializer.render and FlatSerializer.renderRecord.    *)
(*   SpecOrm     the define-orm-models initializer.                        *)
(*                                                                         *)
(* The four specifications share the variables; each leaves the other      *)
(* parts at their idle values.                                             *)
(***************************************************************************)
EXTENDS Integers, Sequences, FiniteSets, TLC

VARIABLES
    \* ---- loadChildEngines (one engine) ----
    manifests,     \* package name -> the package.json of that dependency
    engines,       \* this.engines of the engine that loads its children
    order,         \* history: the vertex names in the order topsort visited them
    loadState,     \* "new" | "loaded" | "error" (the ordering error was thrown)
    \* ---- mount pipeline ----
    tree,          \* engine id -> the loaded Engine object
    application,   \* the accumulator the mount methods write to
    mountLog,      \* history: <<operation, engine>> at each merge of own resources
    bootStep,      \* how many mount operations the boot sequence has run
    \* ---- FlatSerializer ----
    serializer,    \* this: attributes and relationships whitelists
    registry,      \* Serializer.serializerFor: the serializer of the record's type
    record,        \* the record handed to renderRecord
    rendered,      \* the outcome of renderRecord or render, or NotRendered
    payload,       \* the payload handed to render, or NoPayload
    path,          \* history: the method render dispatched to
    \* ---- define-orm-models ----
    models,        \* container.lookupAll('model'): the model classes, in key order
    adapterFor,    \* model class -> container.lookup('orm-adapter:' + its type)
    definitions,   \* the defineModels calls: adapter, argument, promise state
    initState      \* "idle" | "awaiting" | "fulfilled" | "rejected"

loadVars   == <<manifests, engines, order, loadState>>
mountVars  == <<tree, application, mountLog, bootStep>>
renderVars == <<serializer, registry, record, rendered, payload, path>>
ormVars    == <<models, adapterFor, definitions, initState>>
vars       == <<loadVars, mountVars, renderVars, ormVars>>

(***************************************************************************)
(* Sequence helpers                                                        *)
(***************************************************************************)
Range(s) == {s[i] : i \in DOMAIN s}

Occurrences(s, x) == Cardinality({i \in DOMAIN s : s[i] = x})

(***************************************************************************)
(* PART 1.  loadChildEngines                                               *)
(***************************************************************************)

\* The keys of this.pkg.dependencies, in the order forIn walks them.
Dependencies == <<"a", "b", "c">>

PkgNames == Range(Dependencies)

\* The total number of before/after hints the manifests declare.
MaxHints == 3

\* vertex.value of a vertex that addEdge created for a name nobody mapped.
Null == "null"

\* new DAG(): names in insertion order, and per vertex its value, its
\* incoming names in insertion order, and hasOutgoing.  thrown is the
\* "cycle detected" error of addEdge.
NewDAG ==
    [names       |-> <<>>,
     value       |-> [n \in PkgNames |-> Null],
     incoming    |-> [n \in PkgNames |-> <<>>],
     hasOutgoing |-> [n \in PkgNames |-> FALSE],
     thrown      |-> FALSE]

\* DAG.prototype.add: a new vertex unless the name has one.
DagAdd(g, name) ==
    IF name \in Range(g.names) THEN g
    ELSE [g EXCEPT !.names = Append(@, name)]

\* DAG.prototype.map
DagMap(g, name, value) ==
    [DagAdd(g, name) EXCEPT !.value[name] = value]

\* visit(vertex, fn, visited, path): depth first over the incoming edges,
\* fn called after the vertices a vertex depends on.  acc.out collects the
\* names in the order fn is called.
RECURSIVE Visit(_, _, _)
RECURSIVE VisitIncoming(_, _, _, _)
Visit(g, name, acc) ==
    IF name \in acc.visited THEN acc
    ELSE LET entered == [acc EXCEPT !.visited = @ \cup {name}]
             below   == VisitIncoming(g, g.incoming[name], 1, entered)
         IN  [below EXCEPT !.out = Append(@, name)]

VisitIncoming(g, names, i, acc) ==
    IF i > Len(names) THEN acc
    ELSE VisitIncoming(g, names, i + 1, Visit(g, names[i], acc))

NoVisit == [visited |-> {}, out |-> <<>>]

\* DAG.prototype.addEdge: ignores an edge from a name to itself and an edge
\* it already has; throws when toName is among the vertices fromName
\* depends on (checkCycle).
DagAddEdge(g, fromName, toName) ==
    IF g.thrown \/ fromName = toName THEN g
    ELSE LET g2 == DagAdd(DagAdd(g, fromName), toName)
         IN  IF fromName \in Range(g2.incoming[toName]) THEN g2
             ELSE IF toName \in Range(Visit(g2, fromName, NoVisit).out)
                  THEN [g2 EXCEPT !.thrown = TRUE]
                  ELSE [g2 EXCEPT !.hasOutgoing[fromName] = TRUE,
                                  !.incoming[toName] = Append(@, fromName)]

RECURSIVE AddBefore(_, _, _, _)
AddBefore(g, name, before, i) ==
    IF i > Len(before) THEN g
    ELSE AddBefore(DagAddEdge(g, name, before[i]), name, before, i + 1)

RECURSIVE AddAfter(_, _, _, _)
AddAfter(g, name, after, i) ==
    IF i > Len(after) THEN g
    ELSE AddAfter(DagAddEdge(g, after[i], name), name, after, i + 1)

\* DAG.prototype.addEdges(name, value, before, after)
DagAddEdges(g, name, value, before, after) ==
    AddAfter(AddBefore(DagMap(g, name, value), name, before, 1), name, after, 1)

\* DAG.prototype.topsort: visits from every vertex without outgoing edge,
\* in insertion order, with one visited set.
RECURSIVE TopsortFrom(_, _, _)
TopsortFrom(g, i, acc) ==
    IF i > Len(g.names) THEN acc
    ELSE TopsortFrom(g, i + 1,
                     IF g.hasOutgoing[g.names[i]] THEN acc
                     ELSE Visit(g, g.names[i], acc))

DagTopsort(g) == TopsortFrom(g, 1, NoVisit).out

\* The body of the forIn callback, with the arguments swapped (a faulty variant).
AddEngineEdgesSwapped(g, pkg) ==
    IF pkg.engine
    THEN DagAddEdges(g, pkg.name, pkg.name, pkg.after, pkg.before)
    ELSE g

\* The body of the forIn callback, without the after hints (a faulty variant).
AddEngineEdgesNoAfter(g, pkg) ==
    IF pkg.engine
    THEN DagAddEdges(g, pkg.name, pkg.name, pkg.before, <<>>)
    ELSE g

\* The body of the forIn callback: a dependency whose keywords contain
\* 'denali-engine' is instantiated and added to the graph with its hints.
\* The Engine instance is written as the package's name.
AddEngineEdges(g, pkg) ==
    IF pkg.engine
    THEN DagAddEdges(g, pkg.name, pkg.name, pkg.before, pkg.after)
    ELSE g

RECURSIVE EngineGraph(_, _, _)
EngineGraph(m, i, g) ==
    IF i > Len(Dependencies) \/ g.thrown THEN g
    ELSE EngineGraph(m, i + 1, AddEngineEdges(g, m[Dependencies[i]]))

\* loadChildEngines as a whole: this.engines = [], the graph, the topsort
\* that pushes every visited vertex's value.  A throw of addEdges leaves
\* this.engines empty and ends the constructor.
LoadChildEngines ==
    /\ loadState = "new"
    /\ LET g == EngineGraph(manifests, 1, NewDAG)
       IN  IF g.thrown
           THEN /\ engines' = <<>>
                /\ order' = <<>>
                /\ loadState' = "error"
           ELSE LET visitOrder == DagTopsort(g)
                IN  /\ order' = visitOrder
                    /\ engines' = [i \in DOMAIN visitOrder |-> g.value[visitOrder[i]]]
                    /\ loadState' = "loaded"
    /\ UNCHANGED <<manifests, mountVars, renderVars, ormVars>>

\* The hints of the manifests, as one list of declarations: each package's
\* denali.before and denali.after keep the order of the list.
HintDecl == [from : PkgNames, kind : {"before", "after"}, to : PkgNames]

HintLists == UNION {[1..n -> HintDecl] : n \in 0..MaxHints}

RECURSIVE HintsOf(_, _, _)
HintsOf(hs, p, kind) ==
    IF hs = <<>> THEN <<>>
    ELSE LET h == Head(hs)
         IN  IF h.from = p /\ h.kind = kind
             THEN <<h.to>> \o HintsOf(Tail(hs), p, kind)
             ELSE HintsOf(Tail(hs), p, kind)

Manifest(p, isEngine, hs) ==
    [name   |-> p,
     engine |-> isEngine,
     before |-> HintsOf(hs, p, "before"),
     after  |-> HintsOf(hs, p, "after")]

IdleLoad ==
    /\ manifests = [p \in PkgNames |-> Manifest(p, FALSE, <<>>)]
    /\ engines = <<>>
    /\ order = <<>>
    /\ loadState = "idle"

IdleMount ==
    /\ tree = <<>>
    /\ application = <<>>
    /\ mountLog = <<>>
    /\ bootStep = 0

NotRendered == [kind |-> "none"]

NoPayload == [kind |-> "none"]

IdleRender ==
    /\ serializer = <<>>
    /\ registry = <<>>
    /\ record = <<>>
    /\ rendered = NotRendered
    /\ payload = NoPayload
    /\ path = ""

IdleOrm ==
    /\ models = <<>>
    /\ adapterFor = <<>>
    /\ definitions = <<>>
    /\ initState = "idle"

InitLoad ==
    /\ \E kw \in [PkgNames -> BOOLEAN], hs \in HintLists :
           manifests = [p \in PkgNames |-> Manifest(p, kw[p], hs)]
    /\ engines = <<>>
    /\ order = <<>>
    /\ loadState = "new"
    /\ IdleMount
    /\ IdleRender
    /\ IdleOrm

NextLoad == LoadChildEngines

SpecLoad == InitLoad /\ [][NextLoad]_vars


(***************************************************************************)
(* PART 2.  The mount pipeline                                             *)
(***************************************************************************)

\* The application (the root engine) and the child engines below it.
Root == "app"

ChildIds == {"e1", "e2"}

EngineIds == {Root} \cup ChildIds

\* The engines lists loadChildEngines can leave in a tree of these engines:
\* two children of the root in either order, or a child with a child.
EngineLists ==
    {[app |-> <<"e1", "e2">>, e1 |-> <<>>, e2 |-> <<>>],
     [app |-> <<"e2", "e1">>, e1 |-> <<>>, e2 |-> <<>>],
     [app |-> <<"e1">>, e1 |-> <<"e2">>, e2 |-> <<>>],
     [app |-> <<"e2">>, e1 |-> <<>>, e2 |-> <<"e1">>]}

\* File names of a resource directory (config namespaces, adapter names, ...)
\* in the order the directory lists them, and the keys inside a file that
\* exports a plain object.
KeyOrder == <<"k1", "k2">>

Keys == Range(KeyOrder)

Fields == {"f1", "f2"}

\* What a file exports: a plain object with some fields (a JSON object, a
\* sub-directory of require-all) or a value lodash's merge does not descend
\* into (a class, a function, an instance, a scalar).
Exports ==
    {[plain |-> FALSE, fields |-> {}]} \cup
    {[plain |-> TRUE, fields |-> F] : F \in SUBSET Fields \ {{}}}

\* The file names under which a plain object is exported; the other files
\* export classes.
PlainKeys == {"k1"}

\* A directory: some file names, each with what the file exports.
Listings ==
    {l \in UNION {[K -> Exports] : K \in SUBSET Keys} :
        \A k \in DOMAIN l : l[k].plain => k \in PlainKeys}

\* Values: what is not a plain object is an atom named after the resource
\* category and the engine that loaded it.
Atom(token) == [plain |-> FALSE, atom |-> token, fields |-> <<>>]

PlainObject(obj) == [plain |-> TRUE, atom |-> <<>>, fields |-> obj]

\* requireAll(dir): file name -> export.
RequireAll(listing, category, e) ==
    [k \in DOMAIN listing |->
        IF listing[k].plain
        THEN PlainObject([f \in listing[k].fields |-> Atom(<<category, e>>)])
        ELSE Atom(<<category, e>>)]

\* loadConfig: this.config[namespace] = config, for every JSON file.
LoadConfig(listing, e) == RequireAll(listing, "config", e)

\* loadInitializers: values(requireAll(initializersDir)).
LoadInitializers(listing, e) ==
    LET present == SelectSeq(KeyOrder, LAMBDA k : k \in DOMAIN listing)
    IN  [i \in DOMAIN present |-> <<"initializer", e, present[i]>>]

\* loadControllers: requireAll, then every class instantiated.
LoadControllers(listing, e) ==
    [k \in DOMAIN listing |-> Atom(<<"controllers", e>>)]

\* The Engine object init leaves: the engines list of loadChildEngines and
\* the resources of the load methods.
Engine(e, list, listing) ==
    [engines      |-> list,
     config       |-> LoadConfig(listing, e),
     initializers |-> LoadInitializers(listing, e),
     middleware   |-> <<"middleware", e>>,
     routes       |-> <<"routes", e>>,
     adapters     |-> RequireAll(listing, "adapters", e),
     controllers  |-> LoadControllers(listing, e),
     jobs         |-> RequireAll(listing, "jobs", e),
     serializers  |-> RequireAll(listing, "serializers", e)]

\* The accumulator before anything is mounted.
NewApplication ==
    [config       |-> <<>>,
     initializers |-> <<>>,
     router       |-> <<>>,
     adapters     |-> <<>>,
     controllers  |-> <<>>,
     jobs         |-> <<>>,
     serializers  |-> <<>>,
     routes       |-> <<>>]

\* A faulty variant of Merge: assign, which replaces whole entries.
RECURSIVE Merge(_, _)
MergeShallow(object, source) ==
    [k \in DOMAIN object \cup DOMAIN source |->
        IF k \in DOMAIN source THEN source[k] ELSE object[k]]

\* A faulty variant of Merge: the destination is replaced by the source.
MergeReplace(object, source) == source

\* A faulty variant of Merge: the destination wins a collision.
MergeKeepFirst(object, source) ==
    [k \in DOMAIN object \cup DOMAIN source |->
        IF k \in DOMAIN object THEN object[k] ELSE source[k]]

\* lodash merge(object, source): for every key of source, a plain object is
\* merged recursively into the destination's plain object (into {} when the
\* destination holds none), and any other value is assigned.
Merge(object, source) ==
    [k \in DOMAIN object \cup DOMAIN source |->
        IF k \notin DOMAIN source THEN object[k]
        ELSE IF source[k].plain
             THEN LET result == IF k \in DOMAIN object /\ object[k].plain
                                THEN object[k].fields
                                ELSE <<>>
                  IN  PlainObject(Merge(result, source[k].fields))
             ELSE source[k]]

\* The last statement of each mount method, on engine e.
OwnConfig(e, app) == [app EXCEPT !.config = Merge(@, tree[e].config)]

OwnInitializers(e, app) ==
    [app EXCEPT !.initializers = @ \o tree[e].initializers]

OwnMiddleware(e, app) ==
    [app EXCEPT !.router =
        Append(@, [fn |-> tree[e].middleware,
                   args |-> <<"application.router", "application">>])]

\* A faulty variant of OwnAdapters: assign instead of merge.
OwnAdaptersAssign(e, app) ==
    [app EXCEPT !.adapters = MergeShallow(@, tree[e].adapters)]

OwnAdapters(e, app) == [app EXCEPT !.adapters = Merge(@, tree[e].adapters)]

OwnControllers(e, app) ==
    [app EXCEPT !.controllers = Merge(@, tree[e].controllers)]

OwnJobs(e, app) == [app EXCEPT !.jobs = Merge(@, tree[e].jobs)]

OwnSerializers(e, app) ==
    [app EXCEPT !.serializers = Merge(@, tree[e].serializers)]

OwnRoutes(e, app) ==
    [app EXCEPT !.routes =
        Append(@, [fn |-> tree[e].routes,
                   this |-> <<"routerDSL", "application">>])]

Own(op, e, app) ==
    CASE op = "config"       -> OwnConfig(e, app)
      [] op = "initializers" -> OwnInitializers(e, app)
      [] op = "middleware"   -> OwnMiddleware(e, app)
      [] op = "adapters"     -> OwnAdapters(e, app)
      [] op = "controllers"  -> OwnControllers(e, app)
      [] op = "jobs"         -> OwnJobs(e, app)
      [] op = "serializers"  -> OwnSerializers(e, app)
      [] op = "routes"       -> OwnRoutes(e, app)

\* engine.mount<Op>(application): this.engines.forEach(mount<Op>), then the
\* engine's own resources.  st.log records who merged, in order.
RECURSIVE Mount(_, _, _)
RECURSIVE MountEach(_, _, _, _)
\* A faulty variant of Mount: the engine's own resources first.
MountPreOrder(op, e, st) ==
    MountEach(op, tree[e].engines, 1,
              [app |-> Own(op, e, st.app), log |-> Append(st.log, <<op, e>>)])

\* A faulty variant of Mount: an engine with children runs its own part twice.
MountOwnTwice(op, e, st) ==
    LET below == MountEach(op, tree[e].engines, 1, st)
        once  == Own(op, e, below.app)
    IN  [app |-> IF tree[e].engines = <<>> THEN once ELSE Own(op, e, once),
         log |-> Append(below.log, <<op, e>>)]

Mount(op, e, st) ==
    LET below == MountEach(op, tree[e].engines, 1, st)
    IN  [app |-> Own(op, e, below.app), log |-> Append(below.log, <<op, e>>)]

MountEach(op, list, i, st) ==
    IF i > Len(list) THEN st
    ELSE MountEach(op, list, i + 1, Mount(op, list[i], st))

\* The order in which the application calls the mount methods on itself.
BootOrder ==
    <<"config", "initializers", "middleware", "routes",
      "adapters", "controllers", "jobs", "serializers">>

Booting(op) ==
    /\ bootStep < Len(BootOrder)
    /\ BootOrder[bootStep + 1] = op

\* The state the recursion starts from and what the call on the root leaves.
Start == [app |-> application, log |-> mountLog]

Finish(st) ==
    /\ application' = st.app
    /\ mountLog' = st.log
    /\ bootStep' = bootStep + 1
    /\ UNCHANGED <<tree, loadVars, renderVars, ormVars>>

MountConfig ==
    /\ Booting("config")
    /\ Finish(Mount("config", Root, Start))

MountInitializers ==
    /\ Booting("initializers")
    /\ Finish(Mount("initializers", Root, Start))

MountMiddleware ==
    /\ Booting("middleware")
    /\ Finish(Mount("middleware", Root, Start))

MountAdapters ==
    /\ Booting("adapters")
    /\ Finish(Mount("adapters", Root, Start))

MountControllers ==
    /\ Booting("controllers")
    /\ Finish(Mount("controllers", Root, Start))

MountJobs ==
    /\ Booting("jobs")
    /\ Finish(Mount("jobs", Root, Start))

MountSerializers ==
    /\ Booting("serializers")
    /\ Finish(Mount("serializers", Root, Start))

MountRoutes ==
    /\ Booting("routes")
    /\ Finish(Mount("routes", Root, Start))

InitMount ==
    /\ \E lists \in EngineLists, dirs \in [EngineIds -> Listings] :
           tree = [e \in EngineIds |-> Engine(e, lists[e], dirs[e])]
    /\ application = NewApplication
    /\ mountLog = <<>>
    /\ bootStep = 0
    /\ IdleLoad
    /\ IdleRender
    /\ IdleOrm

NextMount ==
    \/ MountConfig
    \/ MountInitializers
    \/ MountMiddleware
    \/ MountAdapters
    \/ MountControllers
    \/ MountJobs
    \/ MountSerializers
    \/ MountRoutes

SpecMount == InitMount /\ [][NextMount]_vars

(***************************************************************************)
(* PART 3.  FlatSerializer.renderRecord                                    *)
(***************************************************************************)

\* Attribute names a serializer may whitelist, in the order of its list.
AttributeOrder == <<"name", "title">>

AttributeNames == Range(AttributeOrder)

\* record.getAttribute(name): a value, or undefined.
Undefined == "undefined"

AttributeValues == {"a", "b", Undefined}

\* Relationship names, and the entries of a relationships whitelist: a
\* string (no key of its own) or a config object with a key.
RelationshipNames == {"author", "comments"}

NoKey == ""

RelationshipConfigs ==
    {[name |-> "comments", key |-> NoKey],
     [name |-> "author", key |-> NoKey],
     [name |-> "comments", key |-> "replies"]}

\* The longest relationships whitelist.
MaxRelationships == 2

\* The number of nested renderRecord calls the call stack holds; one more
\* throws RangeError (Maximum call stack size exceeded).
MaxStack == 3

Whitelists ==
    {w \in UNION {[1..n -> RelationshipConfigs] : n \in 0..MaxRelationships} :
        \A i, j \in DOMAIN w : i # j => w[i] # w[j]}

AttributeLists ==
    {SelectSeq(AttributeOrder, LAMBDA a : a \in A) : A \in SUBSET AttributeNames}

Serializers == [attributes : AttributeLists, relationships : Whitelists]

\* The records: id, whether the record is a Model instance, the
\* relationships its model class declares, and its attributes.
Records ==
    [id          : {"r1", "r2"},
     isModel     : BOOLEAN,
     descriptors : SUBSET RelationshipNames,
     attributes  : [AttributeNames -> AttributeValues]]

\* The serializers that the registry may hold for the record's type, next
\* to the rendering serializer itself.
OtherSerializers ==
    {[attributes |-> <<"name">>, relationships |-> <<>>],
     [attributes |-> <<>>,
      relationships |-> <<[name |-> "comments", key |-> NoKey]>>]}

\* Serializer.serializerFor(record, options): the serializer registered for
\* the record's type.
serializerFor(rec) == registry

\* lodash assign(a, b)
Assign(a, b) ==
    [k \in DOMAIN a \cup DOMAIN b |-> IF k \in DOMAIN b THEN b[k] ELSE a[k]]

\* Outcomes of a call: a returned value or a thrown error.
Returned(v) == [kind |-> "ok", error |-> "", value |-> v]

Thrown(e) == [kind |-> "error", error |-> e, value |-> <<>>]

serializeAttributeName(attributeName) == attributeName

serializeAttributeValue(value) == value

serializeRelationshipName(name) == name

\* A faulty variant of serializeAttributes: no test for undefined.
serializeAttributesAll(ser, rec) ==
    [key \in Range(ser.attributes) |-> rec.attributes[key]]

\* serializeAttributes: one entry per whitelisted attribute whose value is
\* not undefined.
serializeAttributes(ser, rec) ==
    LET kept == {a \in Range(ser.attributes) : rec.attributes[a] # Undefined}
    IN  [key \in {serializeAttributeName(a) : a \in kept} |->
            LET a == CHOOSE x \in kept : serializeAttributeName(x) = key
            IN  serializeAttributeValue(rec.attributes[a])]

RelationshipKey(config) ==
    IF config.key # NoKey THEN config.key
    ELSE serializeRelationshipName(config.name)

RECURSIVE renderRecord(_, _, _)
RECURSIVE serializeRelationshipsFrom(_, _, _, _)

\* serializeRelationship(config, descriptor, record, options): record is
\* the record being rendered; a Model instance is rendered again through
\* the serializer registered for it, anything else returned as it is.
serializeRelationship(config, rec, depth) ==
    IF rec.isModel
    THEN renderRecord(serializerFor(rec), rec, depth + 1)
    ELSE Returned([id |-> rec.id])

\* The forEach of serializeRelationships from entry i on: the assert on the
\* descriptor, then serializedRelationships[key] = ...
serializeRelationshipsFrom(ser, rec, i, depth) ==
    IF i > Len(ser.relationships) THEN Returned(Undefined)
    ELSE LET config == ser.relationships[i]
         IN  IF config.name \notin rec.descriptors
             THEN Thrown("AssertionError")
             ELSE LET one == serializeRelationship(config, rec, depth)
                  IN  IF one.kind = "error" THEN one
                      ELSE serializeRelationshipsFrom(ser, rec, i + 1, depth)

\* serializeRelationships: fills serializedRelationships and ends without a
\* return statement, so the call returns undefined.
serializeRelationships(ser, rec, depth) ==
    serializeRelationshipsFrom(ser, rec, 1, depth)

\* mapValues(relationships, (relationship) => relationship.data):
\* an empty object for undefined.
RelationshipData(relationships) ==
    IF relationships = Undefined THEN <<>>
    ELSE [k \in DOMAIN relationships |-> Undefined]

\* renderRecord(record, options)
renderRecord(ser, rec, depth) ==
    IF depth > MaxStack THEN Thrown("RangeError")
    ELSE LET attributes    == serializeAttributes(ser, rec)
             relationships == serializeRelationships(ser, rec, depth)
         IN  IF relationships.kind = "error" THEN relationships
             ELSE Returned(Assign(Assign([k \in {"id"} |-> rec.id], attributes),
                                  RelationshipData(relationships.value)))

\* The longest array of records handed to render.
MaxPayload == 2

\* Error payloads: status and code are optional properties.
Messages == {"m1", "m2"}

Errors ==
    [status : {404}, code : {"NotFound"}, message : Messages] \cup
    [status : {404}, message : Messages] \cup
    [code : {"NotFound"}, message : Messages] \cup
    [message : Messages]

\* A faulty variant of renderError: the defaults replace what the error has.
renderErrorDefaults(error) ==
    Returned([status |-> 500, code |-> "InternalServerError",
              message |-> error.message])

\* renderError(error)
renderError(error) ==
    Returned([status  |-> IF "status" \in DOMAIN error THEN error.status ELSE 500,
              code    |-> IF "code" \in DOMAIN error THEN error.code
                          ELSE "InternalServerError",
              message |-> error.message])

\* payload.map((record) => this.renderRecord(record, options)) from entry
\* i on: the first throw ends the map.
RECURSIVE renderEach(_, _, _)
renderEach(ser, records, i) ==
    IF i > Len(records) THEN Returned(<<>>)
    ELSE LET one == renderRecord(ser, records[i], 1)
         IN  IF one.kind = "error" THEN one
             ELSE LET rest == renderEach(ser, records, i + 1)
                  IN  IF rest.kind = "error" THEN rest
                      ELSE Returned(<<one.value>> \o rest.value)

\* renderPrimary(payload, options)
renderPrimary(ser, p) ==
    IF p.kind = "array" THEN renderEach(ser, p.data, 1)
    ELSE renderRecord(ser, p.data, 1)

\* render(payload, options): payload instanceof Error, or primary data.
\* via names the method the payload was handed to.
render(ser, p) ==
    IF p.kind = "error"
    THEN [outcome |-> renderError(p.data), via |-> "renderError"]
    ELSE [outcome |-> renderPrimary(ser, p), via |-> "renderPrimary"]

\* this.renderRecord(record, options)
RenderRecord ==
    /\ rendered = NotRendered
    /\ rendered' = renderRecord(serializer, record, 1)
    /\ UNCHANGED <<serializer, registry, record, payload, path, loadVars, mountVars, ormVars>>

Rendering(p) ==
    /\ rendered = NotRendered
    /\ payload' = p
    /\ rendered' = render(serializer, p).outcome
    /\ path' = render(serializer, p).via
    /\ UNCHANGED <<serializer, registry, record, loadVars, mountVars, ormVars>>

\* this.render(payload, options) on an error, on the record, and on an
\* array of records.
Render ==
    \/ \E e \in Errors : Rendering([kind |-> "error", data |-> e])
    \/ Rendering([kind |-> "record", data |-> record])
    \/ \E n \in 0..MaxPayload :
           Rendering([kind |-> "array", data |-> [i \in 1..n |-> record]])

InitRender ==
    /\ serializer \in Serializers
    /\ registry \in {serializer} \cup OtherSerializers
    /\ record \in Records
    /\ rendered = NotRendered
    /\ payload = NoPayload
    /\ path = ""
    /\ IdleLoad
    /\ IdleMount
    /\ IdleOrm

NextRender ==
    \/ RenderRecord
    \/ Render

SpecRender == InitRender /\ [][NextRender]_vars

(***************************************************************************)
(* PART 4.  The define-orm-models initializer                              *)
(***************************************************************************)

\* The keys of the object lookupAll('model') returns, in the order forEach
\* walks them.
ModelOrder == <<"Post", "User", "Comment">>

ModelClasses == Range(ModelOrder)

\* The imported base class (import Model from '../../lib/data/model').
Model == "Model"

\* The adapter instances the container holds.
Adapters == {"memory", "sql"}

\* application.container.lookupAll('model')
LookupAll == {SelectSeq(ModelOrder, LAMBDA m : m \in S) : S \in SUBSET ModelClasses}

\* new Map(): the entries in insertion order.
NewMap == <<>>

MapHas(map, Adapter) == \E j \in DOMAIN map : map[j].adapter = Adapter

MapSet(map, Adapter, value) ==
    IF MapHas(map, Adapter)
    THEN [j \in DOMAIN map |->
             IF map[j].adapter = Adapter THEN [map[j] EXCEPT !.models = value]
             ELSE map[j]]
    ELSE Append(map, [adapter |-> Adapter, models |-> value])

MapGet(map, Adapter) ==
    (CHOOSE entry \in Range(map) : entry.adapter = Adapter).models

\* The body of forEach(models, (ModelClass) => ...): the adapter of
\* ModelClass gets a group, and the group gets Model pushed.
GroupOne(map, lookup, ModelClass) ==
    LET Adapter == lookup[ModelClass]
        withGroup == IF ~MapHas(map, Adapter) THEN MapSet(map, Adapter, <<>>)
                     ELSE map
    IN  MapSet(withGroup, Adapter, Append(MapGet(withGroup, Adapter), Model))

\* forEach(models, ...) from entry i on.
RECURSIVE GroupFrom(_, _, _, _)
GroupFrom(map, lookup, ms, i) ==
    IF i > Len(ms) THEN map
    ELSE GroupFrom(GroupOne(map, lookup, ms[i]), lookup, ms, i + 1)

modelsGroupedByAdapter(lookup, ms) == GroupFrom(NewMap, lookup, ms, 1)

\* modelsGroupedByAdapter.forEach(... definitions.push(
\*     Adapter.defineModels(modelsForThisAdapter))): one pending promise
\* for each entry of the map.
Definitions(map) ==
    [j \in DOMAIN map |->
        [adapter |-> map[j].adapter, models |-> map[j].models,
         state |-> "pending"]]

\* initialize(application), up to await all(definitions).
Initialize ==
    /\ initState = "idle"
    /\ definitions' = Definitions(modelsGroupedByAdapter(adapterFor, models))
    /\ initState' = "awaiting"
    /\ UNCHANGED <<models, adapterFor, loadVars, mountVars, renderVars>>

Settle(j, state) ==
    /\ j \in DOMAIN definitions
    /\ definitions[j].state = "pending"
    /\ definitions' = [definitions EXCEPT ![j].state = state]
    /\ UNCHANGED <<models, adapterFor, initState, loadVars, mountVars, renderVars>>

\* The promise of one defineModels call is fulfilled.
DefineModelsFulfils == \E j \in DOMAIN definitions : Settle(j, "fulfilled")

\* The promise of one defineModels call is rejected (an adapter's override
\* threw).
DefineModelsRejects == \E j \in DOMAIN definitions : Settle(j, "rejected")

\* await all(definitions) returns: every promise is fulfilled.
InitializeFulfils ==
    /\ initState = "awaiting"
    /\ \A j \in DOMAIN definitions : definitions[j].state = "fulfilled"
    /\ initState' = "fulfilled"
    /\ UNCHANGED <<models, adapterFor, definitions, loadVars, mountVars, renderVars>>

\* await all(definitions) throws: all rejects with the first rejection.
InitializeRejects ==
    /\ initState = "awaiting"
    /\ \E j \in DOMAIN definitions : definitions[j].state = "rejected"
    /\ initState' = "rejected"
    /\ UNCHANGED <<models, adapterFor, definitions, loadVars, mountVars, renderVars>>

InitOrm ==
    /\ models \in LookupAll
    /\ adapterFor \in [ModelClasses -> Adapters]
    /\ definitions = <<>>
    /\ initState = "idle"
    /\ IdleLoad
    /\ IdleMount
    /\ IdleRender

NextOrm ==
    \/ Initialize
    \/ DefineModelsFulfils
    \/ DefineModelsRejects
    \/ InitializeFulfils
    \/ InitializeRejects

SpecOrm == InitOrm /\ [][NextOrm]_vars

(***************************************************************************)
(* CLAIMS about loadChildEngines                                           *)
(***************************************************************************)

\* The discovered child engines: the dependencies with the keyword.
Discovered == {p \in PkgNames : manifests[p].engine}

\* <<x, y>>: a hint of a discovered engine asks for x before y.
HintEdges ==
    {e \in PkgNames \X PkgNames :
        \/ e[1] \in Discovered /\ e[2] \in Range(manifests[e[1]].before)
        \/ e[2] \in Discovered /\ e[1] \in Range(manifests[e[2]].after)}

RECURSIVE TransitiveClosure(_)
TransitiveClosure(R) ==
    LET next == R \cup {p \in PkgNames \X PkgNames :
                           \E y \in PkgNames : <<p[1], y>> \in R /\ <<y, p[2]>> \in R}
    IN  IF next = R THEN R ELSE TransitiveClosure(next)

\* The hints contain a cycle (a hint of a package on itself is one).
Cyclic == \E x \in PkgNames : <<x, x>> \in TransitiveClosure(HintEdges)

\* The hints contain a cycle through two or more packages.
CyclicProper ==
    \E x \in PkgNames :
        <<x, x>> \in TransitiveClosure({e \in HintEdges : e[1] # e[2]})

Precedes(list, x, y) ==
    \E i, j \in DOMAIN list : i < j /\ list[i] = x /\ list[j] = y

LoadEnded == loadState \in {"loaded", "error"}

\* C1: when the hints of the discovered child engines are acyclic,
\* loadChildEngines completes and, for every hint between two discovered
\* engines, the engine that has to come first precedes the other in engines:
\* "A before B" puts A before B, "A after B" puts B before A.
C1_HintsRespected ==
    (LoadEnded /\ ~Cyclic) =>
        /\ loadState = "loaded"
        /\ \A e \in HintEdges :
               (e[1] \in Discovered /\ e[2] \in Discovered)
                   => Precedes(engines, e[1], e[2])

\* C1 witness: a completed load in which a hint between two discovered
\* engines goes against the discovery order (c before a).
C1_Witness ==
    /\ loadState = "loaded"
    /\ ~Cyclic
    /\ Discovered = PkgNames
    /\ <<"c", "a">> \in HintEdges
    /\ <<"b", "c">> \in HintEdges
    /\ engines = <<"b", "c", "a">>

\* C2 as stated: whenever the hints contain a cycle, loadChildEngines ends
\* in the ordering error.
C2_CycleAlwaysThrows ==
    (LoadEnded /\ Cyclic) => loadState = "error"

\* C2 amended: whenever the hints contain a cycle through two or more
\* packages, loadChildEngines ends in the ordering error and leaves engines
\* empty; a hint of a package on itself alone is ignored and the load
\* completes.
C2_ProperCycleThrows ==
    /\ (LoadEnded /\ CyclicProper) => (loadState = "error" /\ engines = <<>>)
    /\ (LoadEnded /\ ~CyclicProper) => loadState = "loaded"

\* C2 witness: the ordering error, thrown for a cycle of three packages.
C2_Witness ==
    /\ loadState = "error"
    /\ HintEdges = {<<"a", "b">>, <<"b", "c">>, <<"c", "a">>}

\* C13: after loadChildEngines completes, engines holds every discovered
\* child engine exactly once and nothing else, whatever the hints name.
C13_ExactlyTheDiscovered ==
    loadState = "loaded" =>
        /\ \A p \in Discovered : Occurrences(engines, p) = 1
        /\ Range(engines) \subseteq Discovered
        /\ Len(engines) = Cardinality(Discovered)

(***************************************************************************)
(* CLAIMS about the mount pipeline                                         *)
(***************************************************************************)

Done(op) == \E i \in 1..bootStep : BootOrder[i] = op

\* The engines in the order in which they merged their own resources
\* during mount<op>.
MountOrder(op) ==
    LET entries == SelectSeq(mountLog, LAMBDA x : x[1] = op)
    IN  [i \in DOMAIN entries |-> entries[i][2]]

Children(e) == Range(tree[e].engines)

RECURSIVE Descendants(_)
Descendants(e) == Children(e) \cup UNION {Descendants(c) : c \in Children(e)}

Subtree(e) == {e} \cup Descendants(e)

\* o lists every engine once, every engine after all its descendants, and
\* the subtrees of an engine's children in the order of its engines list.
PostOrdered(o) ==
    /\ \A e \in EngineIds : Occurrences(o, e) = 1
    /\ Len(o) = Cardinality(EngineIds)
    /\ \A e \in EngineIds :
        /\ \A d \in Descendants(e) : Precedes(o, d, e)
        /\ \A i, j \in DOMAIN tree[e].engines :
               i < j => \A x \in Subtree(tree[e].engines[i]),
                           y \in Subtree(tree[e].engines[j]) : Precedes(o, x, y)

RECURSIVE Concat(_, _)
Concat(o, i) ==
    IF i > Len(o) THEN <<>>
    ELSE tree[o[i]].initializers \o Concat(o, i + 1)

\* C3: for each of the eight mount operations that has run, every engine
\* merged its own resources after all its descendants had merged theirs,
\* the children's subtrees in the order of the engines list; the
\* application's initializers are the engines' lists concatenated in that
\* order.
C3_PostOrder ==
    /\ \A op \in Range(BootOrder) : Done(op) => PostOrdered(MountOrder(op))
    /\ Done("initializers") =>
           application.initializers = Concat(MountOrder("initializers"), 1)

\* C3 witness: all eight operations ran on app -> e1 -> e2, the grandchild
\* first, and the initializers of all three engines are in that order.
C3_Witness ==
    /\ bootStep = Len(BootOrder)
    /\ tree[Root].engines = <<"e1">>
    /\ tree["e1"].engines = <<"e2">>
    /\ \A op \in Range(BootOrder) : MountOrder(op) = <<"e2", "e1", "app">>
    /\ application.initializers =
           <<<<"initializer", "e2", "k1">>, <<"initializer", "e1", "k1">>,
             <<"initializer", "app", "k1">>>>

\* The categories merged with lodash merge.
Merged == {"config", "adapters", "controllers", "jobs", "serializers"}

Definers(c, k) == {e \in EngineIds : k \in DOMAIN tree[e][c]}

Position(o, e) == CHOOSE i \in DOMAIN o : o[i] = e

\* The engine of S that merged last during mount<c>.
LastOf(c, S) ==
    CHOOSE e \in S :
        \A x \in S : Position(MountOrder(c), x) <= Position(MountOrder(c), e)

\* The engines that wrote field f of key k: a plain object with that field.
FieldWriters(c, k, f) ==
    {e \in Definers(c, k) :
        tree[e][c][k].plain /\ f \in DOMAIN tree[e][c][k].fields}

\* C4 as stated: for a key defined by more than one engine the application
\* holds exactly the value written last in mount order.
C4_LastValueHeld ==
    \A c \in Merged : Done(c) =>
        \A k \in Keys : Cardinality(Definers(c, k)) > 1 =>
            application[c][k] = tree[LastOf(c, Definers(c, k))][c][k]

\* C4 amended: for a key defined by more than one engine, the definition
\* written last in mount order wins every collision.  When it is not a
\* plain object the application holds exactly it; when it is a plain object
\* the application holds a plain object with all its fields and values, and
\* every field the application holds has the value of the engine that wrote
\* that field last.  The root merges last, so its definition overrides its
\* children's.
C4_LastWriteWins ==
    \A c \in Merged : Done(c) =>
        \A k \in Keys : Cardinality(Definers(c, k)) > 1 =>
            LET last == tree[LastOf(c, Definers(c, k))][c][k]
                held == application[c][k]
            IN  /\ ~last.plain => held = last
                /\ last.plain =>
                    /\ held.plain
                    /\ \A f \in DOMAIN last.fields : held.fields[f] = last.fields[f]
                    /\ \A f \in DOMAIN held.fields :
                        held.fields[f] =
                            tree[LastOf(c, FieldWriters(c, k, f))][c][k].fields[f]
                /\ k \in DOMAIN tree[Root][c] =>
                       LastOf(c, Definers(c, k)) = Root

\* C4 witness: two siblings and their parent define the same adapter, and
\* the application holds the parent's; in another category the later
\* sibling's definition is the one held.
C4_Witness ==
    /\ bootStep = Len(BootOrder)
    /\ tree[Root].engines = <<"e1", "e2">>
    /\ Definers("adapters", "k2") = EngineIds
    /\ application.adapters["k2"] = Atom(<<"adapters", "app">>)
    /\ Definers("config", "k1") = ChildIds
    /\ tree["e1"].config["k1"].plain
    /\ tree["e2"].config["k1"] = PlainObject([f \in {"f1"} |-> Atom(<<"config", "e2">>)])
    /\ application.config["k1"].fields["f1"] = Atom(<<"config", "e2">>)

\* The categories the claim on shallow merging names.
ByName == {"adapters", "controllers", "jobs", "serializers"}

\* The engines that define k in c and merged after every engine that
\* defines k as something else than a plain object.
SinceLastAtom(c, k) ==
    {e \in Definers(c, k) :
        \A x \in Definers(c, k) :
            ~tree[x][c][k].plain =>
                Position(MountOrder(c), x) < Position(MountOrder(c), e)}

\* C5 as stated: in adapters, controllers, jobs and serializers, a name
\* defined by several engines ends as exactly the later-mounted engine's
\* value, no nested field of an earlier value remaining.
C5_ShallowMerge ==
    \A c \in ByName : Done(c) =>
        \A k \in Keys : Cardinality(Definers(c, k)) > 1 =>
            LET last == tree[LastOf(c, Definers(c, k))][c][k]
            IN  /\ application[c][k] = last
                /\ application[c][k].plain =>
                       DOMAIN application[c][k].fields = DOMAIN last.fields

\* C5 amended: the four mount methods merge with the same recursive merge
\* as mountConfig.  A name defined by several engines ends as exactly the
\* later-mounted engine's value when that value is not a plain object
\* (always so for controllers, which are instances); when it is a plain
\* object the entry is a plain object whose fields are those of all the
\* plain objects merged since the last value that was not one, so nested
\* fields of earlier values remain.
C5_MergeByKind ==
    \A c \in ByName : Done(c) =>
        \A k \in Keys : Cardinality(Definers(c, k)) > 1 =>
            LET last == tree[LastOf(c, Definers(c, k))][c][k]
                held == application[c][k]
            IN  /\ c = "controllers" => ~last.plain
                /\ ~last.plain => held = last
                /\ last.plain =>
                    /\ held.plain
                    /\ DOMAIN held.fields =
                           UNION {DOMAIN tree[e][c][k].fields : e \in SinceLastAtom(c, k)}

\* C5 witness: a child's adapter exports {f1}, its parent's exports {f2}:
\* the application's adapter entry has both fields, and the controller of
\* the same name is the parent's instance.
C5_Witness ==
    /\ bootStep = Len(BootOrder)
    /\ tree[Root].engines = <<"e1">>
    /\ Definers("adapters", "k1") = {"e1", Root}
    /\ DOMAIN tree["e1"].adapters["k1"].fields = {"f1"}
    /\ DOMAIN tree[Root].adapters["k1"].fields = {"f2"}
    /\ DOMAIN application.adapters["k1"].fields = {"f1", "f2"}
    /\ application.adapters["k1"].fields["f1"] = Atom(<<"adapters", "e1">>)
    /\ application.controllers["k1"] = Atom(<<"controllers", "app">>)

\* C6: after mountConfig, a namespace that several engines define with
\* plain objects holds the nested keys of all of them, and every nested key
\* has the value of the engine that wrote it last in mount order.
C6_ConfigDeepMerge ==
    Done("config") =>
        \A k \in Keys :
            (/\ Cardinality(Definers("config", k)) > 1
             /\ \A e \in Definers("config", k) : tree[e].config[k].plain)
            => LET held == application.config[k]
               IN  /\ held.plain
                   /\ DOMAIN held.fields =
                          UNION {DOMAIN tree[e].config[k].fields :
                                    e \in Definers("config", k)}
                   /\ \A f \in DOMAIN held.fields :
                          held.fields[f] =
                              tree[LastOf("config", FieldWriters("config", k, f))]
                                  .config[k].fields[f]

\* C6 witness: a child defines {f1, f2} and the root {f1} in the same
\* namespace: f2 is the child's, f1 the root's.
C6_Witness ==
    /\ Done("config")
    /\ tree[Root].engines = <<"e2", "e1">>
    /\ Definers("config", "k1") = {"e1", Root}
    /\ DOMAIN tree["e1"].config["k1"].fields = {"f1", "f2"}
    /\ DOMAIN tree[Root].config["k1"].fields = {"f1"}
    /\ application.config["k1"] =
           PlainObject([f \in {"f1", "f2"} |->
               IF f = "f1" THEN Atom(<<"config", "app">>)
               ELSE Atom(<<"config", "e1">>)])

\* No two engines define the same key in category c.
NoCollision(c) == \A k \in Keys : Cardinality(Definers(c, k)) <= 1

\* C7: when no two engines define the same key of a category, the mapping
\* the application holds is the union of the engines' mappings, each key
\* with its one definition, for each of the engines lists (every order of
\* the children): the result does not depend on the order.
C7_OrderIndependent ==
    \A c \in Merged : (Done(c) /\ NoCollision(c)) =>
        /\ DOMAIN application[c] = UNION {DOMAIN tree[e][c] : e \in EngineIds}
        /\ \A e \in EngineIds : \A k \in DOMAIN tree[e][c] :
               application[c][k] = tree[e][c][k]

\* C7 witness: two siblings with different keys, mounted in the order e2,
\* e1, and the application holds both.
C7_Witness ==
    /\ bootStep = Len(BootOrder)
    /\ tree[Root].engines = <<"e2", "e1">>
    /\ \A c \in Merged : NoCollision(c)
    /\ DOMAIN tree["e1"].config = {"k1"}
    /\ DOMAIN tree["e2"].config = {"k2"}
    /\ DOMAIN tree[Root].config = {}
    /\ DOMAIN application.serializers = {"k1", "k2"}

\* The engines whose function the calls of a list invoke, in order.
Callers(calls) == [i \in DOMAIN calls |-> calls[i].fn[2]]

\* C8: one mountMiddleware on the root invokes the middleware function of
\* every engine exactly once, with the application's router and the
\* application, children before their parent in the order of the engines
\* lists; one mountRoutes invokes every routes function exactly once, with
\* routerDSL(application) as this, in the same order.
C8_InvokedOnceInOrder ==
    /\ Done("middleware") =>
        /\ PostOrdered(Callers(application.router))
        /\ \A i \in DOMAIN application.router :
            /\ application.router[i].fn =
                   tree[Callers(application.router)[i]].middleware
            /\ application.router[i].args = <<"application.router", "application">>
    /\ Done("routes") =>
        /\ PostOrdered(Callers(application.routes))
        /\ \A i \in DOMAIN application.routes :
            /\ application.routes[i].fn = tree[Callers(application.routes)[i]].routes
            /\ application.routes[i].this = <<"routerDSL", "application">>
    /\ ~Done("middleware") => application.router = <<>>
    /\ ~Done("routes") => application.routes = <<>>

\* C8 witness: middleware and routes of e2, e1 and the application were
\* invoked in that order.
C8_Witness ==
    /\ Done("middleware")
    /\ Done("routes")
    /\ tree[Root].engines = <<"e2", "e1">>
    /\ Callers(application.router) = <<"e2", "e1", "app">>
    /\ Callers(application.routes) = <<"e2", "e1", "app">>

(***************************************************************************)
(* CLAIMS about FlatSerializer                                             *)
(***************************************************************************)

RenderEnded == rendered # NotRendered /\ payload = NoPayload

\* C9: renderRecord with an empty relationships whitelist returns an object
\* with the record's id and exactly one entry per whitelisted attribute
\* whose value is not undefined, at the attribute's value; an attribute
\* whose value is undefined has no key.
C9_IdAndDefinedAttributes ==
    (RenderEnded /\ serializer.relationships = <<>>) =>
        /\ rendered.kind = "ok"
        /\ DOMAIN rendered.value =
               {"id"} \cup {a \in Range(serializer.attributes) :
                               record.attributes[a] # Undefined}
        /\ rendered.value["id"] = record.id
        /\ \A a \in DOMAIN rendered.value \ {"id"} :
               rendered.value[a] = record.attributes[a]

\* C9 witness: a record with name 'a' and an undefined title, both
\* whitelisted, rendered as {id, name: 'a'}.
C9_Witness ==
    /\ RenderEnded
    /\ serializer.relationships = <<>>
    /\ serializer.attributes = <<"name", "title">>
    /\ record.attributes = [name |-> "a", title |-> Undefined]
    /\ rendered = Returned([id |-> record.id, name |-> "a"])

\* C10: renderRecord with a whitelisted relationship that the model
\* declares returns an object that has, under the relationship's key, the
\* related data, next to the id and the attributes.
C10_RelationshipsRendered ==
    (/\ RenderEnded
     /\ serializer.relationships # <<>>
     /\ \A i \in DOMAIN serializer.relationships :
            serializer.relationships[i].name \in record.descriptors)
    => /\ rendered.kind = "ok"
       /\ \A i \in DOMAIN serializer.relationships :
            /\ RelationshipKey(serializer.relationships[i]) \in DOMAIN rendered.value
            /\ rendered.value[RelationshipKey(serializer.relationships[i])] # Undefined

\* C14: renderRecord with a non-empty relationships whitelist terminates:
\* it does not re-enter itself on the same record until the call stack is
\* exhausted.
C14_RenderTerminates ==
    (RenderEnded /\ serializer.relationships # <<>>) =>
        rendered.error # "RangeError"

Group(a) == {m \in Range(models) : adapterFor[m] = a}

CallsOn(a) == {j \in DOMAIN definitions : definitions[j].adapter = a}

\* C12: once the initializer has run its loops, defineModels was called
\* exactly once on every adapter that has at least one registered model and
\* on no other adapter, with exactly the model classes of that adapter's
\* group as the argument; and the initializer completes only after every
\* defineModels call has completed.
C12_OncePerAdapterWithItsModels ==
    /\ initState # "idle" =>
           \A a \in Adapters :
               IF Group(a) = {} THEN CallsOn(a) = {}
               ELSE \E j \in DOMAIN definitions :
                        /\ CallsOn(a) = {j}
                        /\ Range(definitions[j].models) = Group(a)
                        /\ Len(definitions[j].models) = Cardinality(Group(a))
    /\ initState = "fulfilled" =>
           \A j \in DOMAIN definitions : definitions[j].state # "pending"

=============================================================================
